---- MODULE Spec2Model ----
(***************************************************************************)
(* Luno: retrieval-augmented question answering over uploaded documents.   *)
(* The model covers the persistent Chroma collection, VectorStoreManager   *)
(* (src/utils/vector_store.py), QAChainManager (src/utils/qa_chain.py),    *)
(* DocumentProcessor (src/utils/document_processor.py) and the Streamlit   *)
(* handlers that drive them (src/app.py).                                  *)
(***************************************************************************)
EXTENDS Integers, Sequences, FiniteSets, Bags, TLC

VARIABLES
    coll,           \* the persistent collection "documents" under CHROMA_DB_PATH
    vector_store,   \* per session: VectorStoreManager.vector_store (None or a Chroma handle)
    qa_chain,       \* per session: QAChainManager.qa_chain is built (TRUE) or None (FALSE)
    retriever,      \* per session: the store QAChainManager.retriever is bound to
    chat_history,   \* per session: st.session_state.chat_history
    pc,             \* per session: position inside a handler that is in flight
    frame,          \* per session: locals of the handler that is in flight
    last            \* per session: the handler that completed last and what it returned

vars == <<coll, vector_store, qa_chain, retriever, chat_history, pc, frame, last>>

----------------------------------------------------------------------------
(* Bounds of the model *)

\* collections ever created under the name "documents" (each has its own id)
MaxColl == 3
\* chunks the collection may hold
MaxChunks == 4
\* turns kept in one session's chat history
MaxChat == 1
\* files in one upload
MaxBatch == 2
\* characters in a generated file's text
MaxText == 6
\* pieces a generated raw text is put together from
MaxPieces == 3
\* chunks in the index a question is asked against
MaxIndexed == 3

----------------------------------------------------------------------------
(* Values *)

\* self.vector_store = None; Chroma handles are collection ids 1, 2, ...
None == 0

Sessions == {"s1", "s2"}

\* TOP_K_RESULTS
TOP_K_RESULTS == 4

----------------------------------------------------------------------------
(* Text: a string is a sequence of one-character strings *)

LowerCase == <<"a","b","c","d","e","f","g","h","i","j","k","l","m",
               "n","o","p","q","r","s","t","u","v","w","x","y","z">>
UpperCase == <<"A","B","C","D","E","F","G","H","I","J","K","L","M",
               "N","O","P","Q","R","S","T","U","V","W","X","Y","Z">>
Digits == <<"0","1","2","3","4","5","6","7","8","9">>

Range(f) == {f[i] : i \in DOMAIN f}

\* regex \w
IsWord(c) == c \in Range(LowerCase) \cup Range(UpperCase) \cup Range(Digits) \cup {"_"}
\* regex \s, and the characters str.strip() removes
IsSpace(c) == c \in {" ", "\t", "\n", "\r", "\f"}
\* regex \d
IsDigit(c) == c \in Range(Digits)

\* the characters in code-point order, for sorted()
CodeOrder == <<"\t", "\n", "\f", "\r", " ", "-", ".", "/">> \o Digits \o UpperCase
                 \o <<"_">> \o LowerCase
Code(c) == CHOOSE i \in DOMAIN CodeOrder : CodeOrder[i] = c

\* a < b for Python strings
RECURSIVE StrLess(_, _)
StrLess(a, b) ==
    IF b = <<>> THEN FALSE
    ELSE IF a = <<>> THEN TRUE
    ELSE IF Head(a) = Head(b) THEN StrLess(Tail(a), Tail(b))
    ELSE Code(Head(a)) < Code(Head(b))

\* str.lower() of one character
LowerChar(c) ==
    IF c \in Range(UpperCase)
    THEN LowerCase[CHOOSE i \in DOMAIN UpperCase : UpperCase[i] = c]
    ELSE c
\* str.lower()
lower(s) == [i \in DOMAIN s |-> LowerChar(s[i])]

\* str.strip()
RECURSIVE lstrip(_)
lstrip(s) == IF s # <<>> /\ IsSpace(Head(s)) THEN lstrip(Tail(s)) ELSE s
RECURSIVE rstrip(_)
rstrip(s) ==
    IF s # <<>> /\ IsSpace(s[Len(s)]) THEN rstrip(SubSeq(s, 1, Len(s) - 1)) ELSE s
strip(s) == rstrip(lstrip(s))

\* sep.join(parts)
RECURSIVE join(_, _)
join(sep, parts) ==
    IF parts = <<>> THEN <<>>
    ELSE IF Len(parts) = 1 THEN parts[1]
    ELSE parts[1] \o sep \o join(sep, Tail(parts))

\* s[i:] starts with lit
StartsAt(s, i, lit) ==
    /\ i + Len(lit) - 1 <= Len(s)
    /\ \A k \in 1..Len(lit) : s[i + k - 1] = lit[k]

\* the first index >= i of s that does not satisfy the class (Len(s)+1 when none)
RECURSIVE SkipSpace(_, _)
SkipSpace(s, i) == IF i <= Len(s) /\ IsSpace(s[i]) THEN SkipSpace(s, i + 1) ELSE i
RECURSIVE SkipDigits(_, _)
SkipDigits(s, i) == IF i <= Len(s) /\ IsDigit(s[i]) THEN SkipDigits(s, i + 1) ELSE i
RECURSIVE SkipNewlines(_, _)
SkipNewlines(s, i) == IF i <= Len(s) /\ s[i] = "\n" THEN SkipNewlines(s, i + 1) ELSE i
RECURSIVE SkipBlanks(_, _)
SkipBlanks(s, i) == IF i <= Len(s) /\ s[i] \in {" ", "\t"} THEN SkipBlanks(s, i + 1) ELSE i

\* str(n) for n >= 0
RECURSIVE DecStr(_)
DecStr(n) == IF n < 10 THEN <<Digits[n + 1]>> ELSE DecStr(n \div 10) \o <<Digits[(n % 10) + 1]>>

----------------------------------------------------------------------------
(* config.py *)

CHUNK_SIZE == 4
CHUNK_OVERLAP == 1
MAX_FILE_SIZE_MB == 10
MAX_FILE_SIZE_BYTES == MAX_FILE_SIZE_MB * 1024 * 1024
EXT_PDF == <<".", "p", "d", "f">>
EXT_TXT == <<".", "t", "x", "t">>
EXT_DOCX == <<".", "d", "o", "c", "x">>
SUPPORTED_FORMATS == {EXT_PDF, EXT_TXT, EXT_DOCX}

----------------------------------------------------------------------------
(* DocumentProcessor *)

\* text.replace("\r", "\n")
ReplaceCR(s) == [i \in DOMAIN s |-> IF s[i] = "\r" THEN "\n" ELSE s[i]]

\* re.sub(r"(\w)-\n(\w)", r"\1\2", text), scanning from index i
RECURSIVE SubHyphen(_, _)
SubHyphen(s, i) ==
    IF i > Len(s) THEN <<>>
    ELSE IF /\ i + 3 <= Len(s)
            /\ IsWord(s[i]) /\ s[i + 1] = "-" /\ s[i + 2] = "\n" /\ IsWord(s[i + 3])
         THEN <<s[i], s[i + 3]>> \o SubHyphen(s, i + 4)
         ELSE <<s[i]>> \o SubHyphen(s, i + 1)

PageOpen == <<"-", "-", "-", " ", "P", "a", "g", "e", " ">>
PageClose == <<" ", "-", "-", "-">>

\* where a match of r"\s*--- Page \d+ ---\s*" that starts at i ends (the index after
\* it), or 0 when none starts at i
PageMatchEnd(s, i) ==
    LET j == SkipSpace(s, i)
        d == j + Len(PageOpen)
        e == SkipDigits(s, d)
    IN  IF StartsAt(s, j, PageOpen) /\ e > d /\ StartsAt(s, e, PageClose)
        THEN SkipSpace(s, e + Len(PageClose))
        ELSE 0

\* re.sub(r"\s*--- Page \d+ ---\s*", "\n", text), scanning from index i
RECURSIVE SubPage(_, _)
SubPage(s, i) ==
    IF i > Len(s) THEN <<>>
    ELSE LET e == PageMatchEnd(s, i)
         IN  IF e # 0 THEN <<"\n">> \o SubPage(s, e)
             ELSE <<s[i]>> \o SubPage(s, i + 1)

\* re.sub(r"(?<!\n)\n(?!\n)", " ", text)
SubLoneNewline(s) ==
    [i \in DOMAIN s |->
        IF /\ s[i] = "\n"
           /\ (i = 1 \/ s[i - 1] # "\n")
           /\ (i = Len(s) \/ s[i + 1] # "\n")
        THEN " " ELSE s[i]]

\* re.sub(r"\n{3,}", "\n\n", text), scanning from index i
RECURSIVE SubNewlines(_, _)
SubNewlines(s, i) ==
    IF i > Len(s) THEN <<>>
    ELSE LET e == SkipNewlines(s, i)
         IN  IF e - i >= 3 THEN <<"\n", "\n">> \o SubNewlines(s, e)
             ELSE <<s[i]>> \o SubNewlines(s, i + 1)

\* re.sub(r"[ \t]{2,}", " ", text), scanning from index i
RECURSIVE SubBlanks(_, _)
SubBlanks(s, i) ==
    IF i > Len(s) THEN <<>>
    ELSE LET e == SkipBlanks(s, i)
         IN  IF e - i >= 2 THEN <<" ">> \o SubBlanks(s, e)
             ELSE <<s[i]>> \o SubBlanks(s, i + 1)

\* DocumentProcessor._clean_text
clean_text(text) ==
    IF text = <<>> THEN <<>>
    ELSE LET t1 == ReplaceCR(text)
             t2 == SubHyphen(t1, 1)
             t3 == SubPage(t2, 1)
             t4 == SubLoneNewline(t3)
             t5 == SubNewlines(t4, 1)
             t6 == SubBlanks(t5, 1)
         IN  strip(t6)

\* the largest i with s[i] = c, or 0 (str.rfind)
rfind(s, c) ==
    LET I == {i \in DOMAIN s : s[i] = c}
    IN  IF I = {} THEN 0 ELSE CHOOSE i \in I : \A j \in I : j <= i

\* os.path.splitext(file_name)[1]
splitext(p) ==
    LET sepIndex == rfind(p, "/")
        dotIndex == rfind(p, ".")
    IN  IF /\ dotIndex > sepIndex
           /\ \E k \in (sepIndex + 1)..(dotIndex - 1) : p[k] # "."
        THEN SubSeq(p, dotIndex, Len(p))
        ELSE <<>>

\* a faulty validate_file: a file of exactly the maximum size is rejected
validate_file_below_limit(file_name, file_size) ==
    LET file_ext == lower(splitext(file_name))
    IN  IF file_ext \notin SUPPORTED_FORMATS THEN <<FALSE, "unsupported">>
        ELSE IF file_size >= MAX_FILE_SIZE_BYTES THEN <<FALSE, "too_large">>
        ELSE <<TRUE, "">>

\* DocumentProcessor.validate_file: <<is_valid, error>>
validate_file(file_name, file_size) ==
    LET file_ext == lower(splitext(file_name))
    IN  IF file_ext \notin SUPPORTED_FORMATS THEN <<FALSE, "unsupported">>
        ELSE IF file_size > MAX_FILE_SIZE_BYTES THEN <<FALSE, "too_large">>
        ELSE <<TRUE, "">>

\* An uploaded file's bytes: size is len(file_bytes); readable says whether the
\* format's reader (PyPDF2, python-docx) accepts them; parts are the page texts of a
\* PDF, the paragraph texts of a DOCX, the decoded text of a TXT.
FileBytes(size, readable, parts) == [size |-> size, readable |-> readable, parts |-> parts]

\* the loop of extract_text_from_pdf over pages page_num.. (0-based page_num = n - 1)
RECURSIVE PdfPages(_, _)
PdfPages(pages, n) ==
    IF n > Len(pages) THEN <<>>
    ELSE (IF pages[n] # <<>>
          THEN <<"\n">> \o PageOpen \o DecStr(n) \o PageClose \o <<"\n">> \o pages[n]
          ELSE <<>>) \o PdfPages(pages, n + 1)

\* DocumentProcessor.extract_text_from_pdf
extract_text_from_pdf(file_bytes) ==
    IF ~file_bytes.readable
    THEN [ret |-> "raise", text |-> <<>>, metadata |-> [pages |-> 0]]
    ELSE [ret |-> "ok",
          text |-> clean_text(PdfPages(file_bytes.parts, 1)),
          metadata |-> [pages |-> Len(file_bytes.parts)]]

\* DocumentProcessor.extract_text_from_docx
extract_text_from_docx(file_bytes) ==
    IF ~file_bytes.readable
    THEN [ret |-> "raise", text |-> <<>>, metadata |-> [paragraphs |-> 0]]
    ELSE LET paragraphs == SelectSeq(file_bytes.parts, LAMBDA para : strip(para) # <<>>)
         IN  [ret |-> "ok",
              text |-> clean_text(join(<<"\n", "\n">>, paragraphs)),
              metadata |-> [paragraphs |-> Len(paragraphs)]]

\* DocumentProcessor.extract_text_from_txt (latin-1 decodes whatever utf-8 rejects)
extract_text_from_txt(file_bytes) ==
    LET text == join(<<>>, file_bytes.parts)
    IN  [ret |-> "ok",
         text |-> clean_text(text),
         metadata |-> [lines |-> Cardinality({i \in DOMAIN text : text[i] = "\n"}) + 1]]

\* self.text_splitter.split_text: the splitter's slices of at most CHUNK_SIZE
\* characters, each starting CHUNK_OVERLAP characters before the end of the one
\* before, stripped, empty ones dropped
RECURSIVE Slices(_, _)
Slices(text, start) ==
    IF start > Len(text) THEN <<>>
    ELSE LET end == IF start + CHUNK_SIZE - 1 < Len(text)
                    THEN start + CHUNK_SIZE - 1 ELSE Len(text)
             piece == strip(SubSeq(text, start, end))
             rest == IF end = Len(text) THEN <<>>
                     ELSE Slices(text, start + CHUNK_SIZE - CHUNK_OVERLAP)
         IN  (IF piece = <<>> THEN <<>> ELSE <<piece>>) \o rest
split_text(text) == Slices(text, 1)

\* a faulty chunk builder: chunk_index counts from 1
ChunkDocument_one_based(file_name, chunks, idx, doc_metadata) ==
    [page_content |-> chunks[idx + 1],
     metadata |-> doc_metadata @@ [source |-> file_name,
                                   chunk_index |-> idx + 1,
                                   total_chunks |-> Len(chunks)]]

\* LangChainDocument(page_content=chunk, metadata=metadata) for chunk idx (0-based)
ChunkDocument(file_name, chunks, idx, doc_metadata) ==
    [page_content |-> chunks[idx + 1],
     metadata |-> doc_metadata @@ [source |-> file_name,
                                   chunk_index |-> idx,
                                   total_chunks |-> Len(chunks)]]

\* DocumentProcessor.process_document
process_document(file_name, file_bytes) ==
    LET valid == validate_file(file_name, file_bytes.size)
        file_ext == lower(splitext(file_name))
        ex == IF file_ext = EXT_PDF THEN extract_text_from_pdf(file_bytes)
              ELSE IF file_ext = EXT_DOCX THEN extract_text_from_docx(file_bytes)
              ELSE extract_text_from_txt(file_bytes)
        chunks == split_text(ex.text)
    IN  IF ~valid[1] THEN [ret |-> "raise", error |-> valid[2], documents |-> <<>>]
        ELSE IF ex.ret = "raise" THEN [ret |-> "raise", error |-> "extract", documents |-> <<>>]
        ELSE IF strip(ex.text) = <<>> THEN [ret |-> "raise", error |-> "empty", documents |-> <<>>]
        ELSE [ret |-> "ok", error |-> "",
              documents |-> [i \in 1..Len(chunks) |->
                                ChunkDocument(file_name, chunks, i - 1, ex.metadata)]]

\* DocumentProcessor.get_document_info(documents)["total_chunks"]
get_document_info(documents) == [total_chunks |-> Len(documents)]

----------------------------------------------------------------------------
(* The persistent store: one named collection *)

\* no collection has been created yet under CHROMA_DB_PATH
NoCollection == [exists |-> FALSE, id |-> 0, docs |-> EmptyBag]

\* client.get_or_create_collection(COLLECTION_NAME): a new collection gets a new id
get_or_create_collection(c) ==
    IF c.exists THEN c ELSE [exists |-> TRUE, id |-> c.id + 1, docs |-> EmptyBag]

\* client.delete_collection(COLLECTION_NAME) on an existing collection
delete_collection(c) == [exists |-> FALSE, id |-> c.id, docs |-> EmptyBag]

\* the documents of a batch as a bag of stored chunks
RECURSIVE SeqToBag(_)
SeqToBag(documents) ==
    IF documents = <<>> THEN EmptyBag
    ELSE SetToBag({Head(documents)}) (+) SeqToBag(Tail(documents))

\* collection.upsert of a batch (one call: the whole batch or nothing)
upsert(c, documents) == [c EXCEPT !.docs = @ (+) SeqToBag(documents)]

\* collection.get(where={"source": source_name}): the stored chunks of one source
ChunksOf(c, source_name) ==
    LET D == {d \in BagToSet(c.docs) : d.metadata.source = source_name}
    IN  [d \in D |-> c.docs[d]]

\* the collection a Chroma handle was made for still exists
HandleLive(vs, c) == c.exists /\ vs = c.id

\* the stored chunks in the order the embedding distance to the query ranks them
\* (a fixed order; copies of a chunk are adjacent)
RECURSIVE Ranked(_)
Ranked(docs) ==
    IF docs = EmptyBag THEN <<>>
    ELSE LET d == CHOOSE x \in BagToSet(docs) : TRUE
         IN  <<d>> \o Ranked(docs (-) SetToBag({d}))

\* the k nearest stored chunks
Nearest(c, k) ==
    LET r == Ranked(c.docs) IN SubSeq(r, 1, IF Len(r) < k THEN Len(r) ELSE k)

----------------------------------------------------------------------------
(* VectorStoreManager: each operator gives what the method returns and the   *)
(* manager's handle and the collection after it. fault says which external   *)
(* call fails: "none", "create" (the store refuses the collection lookup),   *)
(* "write" (the embedding or the upsert of the batch fails).                 *)

Faults == {"none", "create", "write"}

\* a faulty _initialize_vector_store: the existing collection is not looked up
initialize_vector_store_unloaded(c) == None

\* VectorStoreManager._initialize_vector_store
initialize_vector_store(c) == IF c.exists THEN c.id ELSE None

\* add_documents replacing the chunks already indexed under the batch's source
add_documents_replaces_source(vs, c, documents, fault) ==
    LET kept(x) == [x EXCEPT !.docs = @ (-) ChunksOf(x, documents[1].metadata.source)]
    IN  IF documents = <<>> THEN [ret |-> "False", vector_store |-> vs, coll |-> c]
        ELSE IF vs = None
        THEN IF fault = "create" THEN [ret |-> "raise", vector_store |-> vs, coll |-> c]
             ELSE IF fault = "write"
             THEN [ret |-> "raise", vector_store |-> vs,
                   coll |-> get_or_create_collection(c)]
             ELSE LET c1 == get_or_create_collection(c)
                  IN  [ret |-> "True", vector_store |-> c1.id,
                       coll |-> upsert(kept(c1), documents)]
        ELSE IF ~HandleLive(vs, c) \/ fault # "none"
             THEN [ret |-> "raise", vector_store |-> vs, coll |-> c]
             ELSE [ret |-> "True", vector_store |-> vs, coll |-> upsert(kept(c), documents)]

\* VectorStoreManager.add_documents
add_documents(vs, c, documents, fault) ==
    IF documents = <<>> THEN [ret |-> "False", vector_store |-> vs, coll |-> c]
    ELSE IF vs = None
    THEN \* Chroma.from_documents: the constructor gets or creates the collection,
         \* then the batch is embedded and upserted; the handle is assigned on return
         IF fault = "create" THEN [ret |-> "raise", vector_store |-> vs, coll |-> c]
         ELSE IF fault = "write"
         THEN [ret |-> "raise", vector_store |-> vs, coll |-> get_or_create_collection(c)]
         ELSE LET c1 == get_or_create_collection(c)
              IN  [ret |-> "True", vector_store |-> c1.id, coll |-> upsert(c1, documents)]
    ELSE \* self.vector_store.add_documents on the handle's collection
         IF ~HandleLive(vs, c) \/ fault # "none"
         THEN [ret |-> "raise", vector_store |-> vs, coll |-> c]
         ELSE [ret |-> "True", vector_store |-> vs, coll |-> upsert(c, documents)]

\* a faulty similarity_search: the "vector_store is None" guard is missing
similarity_search_unguarded(vs, c, query, k) ==
    IF ~HandleLive(vs, c) THEN [ret |-> "raise", value |-> <<>>]
    ELSE [ret |-> "ok", value |-> Nearest(c, k)]

\* VectorStoreManager.similarity_search
similarity_search(vs, c, query, k) ==
    IF vs = None THEN [ret |-> "ok", value |-> <<>>]
    ELSE IF ~HandleLive(vs, c) THEN [ret |-> "raise", value |-> <<>>]
    ELSE [ret |-> "ok", value |-> Nearest(c, k)]

\* sorted(list(sources))
RECURSIVE sorted(_)
sorted(S) ==
    IF S = {} THEN <<>>
    ELSE LET m == CHOOSE x \in S : \A y \in S \ {x} : StrLess(x, y)
         IN  <<m>> \o sorted(S \ {m})

\* VectorStoreManager.get_all_documents
get_all_documents(vs, c) ==
    IF vs = None THEN [ret |-> "ok", value |-> <<>>]
    ELSE IF ~c.exists THEN [ret |-> "raise", value |-> <<>>]
    ELSE [ret |-> "ok", value |-> sorted({d.metadata.source : d \in BagToSet(c.docs)})]

\* a faulty delete_document: only the first matching id is deleted
delete_document_first_id(vs, c, source_name) ==
    IF vs = None THEN [ret |-> "False", coll |-> c]
    ELSE IF ~c.exists THEN [ret |-> "raise", coll |-> c]
    ELSE LET results == ChunksOf(c, source_name)
         IN  IF results # EmptyBag
             THEN LET d == CHOOSE x \in BagToSet(results) : TRUE
                  IN  [ret |-> "True", coll |-> [c EXCEPT !.docs = @ (-) SetToBag({d})]]
             ELSE [ret |-> "False", coll |-> c]

\* delete_document returning True without looking at the ids it found
delete_document_reports_true(vs, c, source_name) ==
    IF vs = None THEN [ret |-> "False", coll |-> c]
    ELSE IF ~c.exists THEN [ret |-> "raise", coll |-> c]
    ELSE [ret |-> "True", coll |-> [c EXCEPT !.docs = @ (-) ChunksOf(c, source_name)]]

\* VectorStoreManager.delete_document
delete_document(vs, c, source_name) ==
    IF vs = None THEN [ret |-> "False", coll |-> c]
    ELSE IF ~c.exists THEN [ret |-> "raise", coll |-> c]
    ELSE LET results == ChunksOf(c, source_name)
         IN  IF results # EmptyBag
             THEN [ret |-> "True", coll |-> [c EXCEPT !.docs = @ (-) results]]
             ELSE [ret |-> "False", coll |-> c]

\* a faulty clear_all_documents: the manager keeps its handle
clear_all_documents_keeps_handle(vs, c) ==
    IF ~c.exists THEN [ret |-> "raise", vector_store |-> vs, coll |-> c]
    ELSE [ret |-> "True", vector_store |-> vs, coll |-> delete_collection(c)]

\* VectorStoreManager.clear_all_documents
clear_all_documents(vs, c) ==
    IF ~c.exists THEN [ret |-> "raise", vector_store |-> vs, coll |-> c]
    ELSE [ret |-> "True", vector_store |-> None, coll |-> delete_collection(c)]

\* VectorStoreManager.get_document_count
get_document_count(vs, c) ==
    IF vs = None THEN 0
    ELSE IF ~c.exists THEN 0
    ELSE BagCardinality(c.docs)

\* VectorStoreManager.get_vector_store
get_vector_store(vs) == vs

----------------------------------------------------------------------------
(* QAChainManager *)

\* sub in s
Contains(s, sub) == \E i \in 1..(Len(s) + 1) : StartsAt(s, i, sub)

\* text.split("\n"), scanning from index i
RECURSIVE SplitLines(_, _)
SplitLines(s, i) ==
    LET I == {j \in i..Len(s) : s[j] = "\n"}
    IN  IF I = {} THEN <<SubSeq(s, i, Len(s))>>
        ELSE LET j == CHOOSE x \in I : \A y \in I : x <= y
             IN  <<SubSeq(s, i, j - 1)>> \o SplitLines(s, j + 1)

keywords == << <<"g","o","a","l">>, <<"o","b","j","e","c","t","i","v","e">>,
               <<"p","u","r","p","o","s","e">>, <<"a","i","m">>,
               <<"m","i","s","s","i","o","n">> >>

\* any(k in text.lower() for k in keywords)
HasKeyword(text) == \E n \in DOMAIN keywords : Contains(lower(text), keywords[n])

\* [l.strip() for l in doc.page_content.split('\n') if l.strip()]
StrippedLines(page_content) ==
    LET ls == SplitLines(page_content, 1)
        st == [n \in DOMAIN ls |-> strip(ls[n])]
    IN  SelectSeq(st, LAMBDA l : l # <<>>)

\* the windows of one document: for each line i (1-based) with a keyword,
\* " ".join(lines[max(0, i-1) : min(len(lines), i+3)]) in the code's 0-based terms
RECURSIVE Windows(_, _)
Windows(lines, i) ==
    IF i > Len(lines) THEN <<>>
    ELSE (IF HasKeyword(lines[i])
          THEN <<join(<<" ">>, SubSeq(lines,
                                      IF i - 1 < 1 THEN 1 ELSE i - 1,
                                      IF i + 2 > Len(lines) THEN Len(lines) ELSE i + 2))>>
          ELSE <<>>) \o Windows(lines, i + 1)

\* the snippets of all source documents, in order
RECURSIVE Snippets(_)
Snippets(source_docs) ==
    IF source_docs = <<>> THEN <<>>
    ELSE Windows(StrippedLines(Head(source_docs).page_content), 1)
            \o Snippets(Tail(source_docs))

\* joined[:350] + "..." beyond 350 characters
SNIPPET_CHARS == 350
\* len(answer) < 10
SHORT_ANSWER == 10

\* the extractive answer of ask_question: <<found, text>> (found FALSE is None)
Extractive(question, source_docs) ==
    LET snippets == IF HasKeyword(question) THEN Snippets(source_docs) ELSE <<>>
        joined == join(<<" ">>, snippets)
    IN  IF snippets = <<>> THEN <<FALSE, <<>>>>
        ELSE <<TRUE, IF Len(joined) > SNIPPET_CHARS
                     THEN SubSeq(joined, 1, SNIPPET_CHARS) \o <<".", ".", ".">>
                     ELSE joined>>

\* FinalAnswer comparing the lengths before answer.strip()
FinalAnswer_untrimmed(question, source_docs, generated) ==
    LET answer == strip(generated)
        ex == Extractive(question, source_docs)
    IN  IF /\ ex[1] /\ ex[2] # <<>>
           /\ (Len(generated) < SHORT_ANSWER \/ 10 * Len(ex[2]) < 7 * Len(generated))
        THEN ex[2] ELSE answer

\* the answer ask_question returns for the generated text
FinalAnswer(question, source_docs, generated) ==
    LET answer == strip(generated)
        ex == Extractive(question, source_docs)
    IN  IF /\ ex[1] /\ ex[2] # <<>>
           /\ (Len(answer) < SHORT_ANSWER \/ 10 * Len(ex[2]) < 7 * Len(answer))
        THEN ex[2] ELSE answer

\* the retriever's get_relevant_documents on the store it was made from
Retrieve(store, c) ==
    IF HandleLive(store, c)
    THEN [ret |-> "ok", value |-> Nearest(c, TOP_K_RESULTS)]
    ELSE [ret |-> "raise", value |-> <<>>]

AskFaults == {"none", "retrieve", "llm"}

\* the store the retriever is bound to once the chain exists (create_qa_chain
\* runs only while self.qa_chain is None)
BoundStore(chain, bound, vs) == IF chain THEN bound ELSE vs

\* ask_question building the chain before it looks at the question
ask_question_creates_first(chain, bound, question, vs, c, fault, generated) ==
    LET store == BoundStore(chain, bound, vs)
        got == Retrieve(store, c)
        same == [ret |-> "raise", answer |-> <<>>, source_documents |-> <<>>,
                 qa_chain |-> chain, retriever |-> bound, used |-> None]
    IN  IF ~chain /\ vs = None THEN [same EXCEPT !.ret = "raise_no_store"]
        ELSE IF strip(question) = <<>>
        THEN [same EXCEPT !.ret = "raise_empty", !.qa_chain = TRUE, !.retriever = store]
        ELSE IF got.ret = "raise" \/ fault # "none"
        THEN [same EXCEPT !.qa_chain = TRUE, !.retriever = store, !.used = store]
        ELSE [ret |-> "ok",
              answer |-> FinalAnswer(question, got.value, generated),
              source_documents |-> got.value,
              qa_chain |-> TRUE, retriever |-> store, used |-> store]

\* QAChainManager.ask_question: chain and bound are self.qa_chain (built or not)
\* and the store self.retriever is bound to; fault is the external call that
\* fails; generated is the language model's output
ask_question(chain, bound, question, vs, c, fault, generated) ==
    LET store == BoundStore(chain, bound, vs)
        got == Retrieve(store, c)
        same == [ret |-> "raise", answer |-> <<>>, source_documents |-> <<>>,
                 qa_chain |-> chain, retriever |-> bound, used |-> None]
    IN  IF strip(question) = <<>> THEN [same EXCEPT !.ret = "raise_empty"]
        ELSE IF ~chain /\ vs = None THEN [same EXCEPT !.ret = "raise_no_store"]
        ELSE IF got.ret = "raise" \/ fault # "none"
        THEN [same EXCEPT !.qa_chain = TRUE, !.retriever = store, !.used = store]
        ELSE [ret |-> "ok",
              answer |-> FinalAnswer(question, got.value, generated),
              source_documents |-> got.value,
              qa_chain |-> TRUE, retriever |-> store, used |-> store]

\* metadata of one cited chunk as format_sources annotates it
ChunkInfo(metadata) ==
    IF "pages" \in DOMAIN metadata THEN <<"PDF", metadata.pages>>
    ELSE IF "paragraphs" \in DOMAIN metadata THEN <<"DOCX", metadata.paragraphs>>
    ELSE IF "lines" \in DOMAIN metadata THEN <<"TXT", metadata.lines>>
    ELSE <<"", 0>>

\* the loop of format_sources: citations of the documents not yet seen
RECURSIVE Citations(_, _)
Citations(source_documents, seen_sources) ==
    IF source_documents = <<>> THEN <<>>
    ELSE LET doc == Head(source_documents)
             source == doc.metadata.source
         IN  IF source \notin seen_sources
             THEN <<[source |-> source, info |-> ChunkInfo(doc.metadata)]>>
                    \o Citations(Tail(source_documents), seen_sources \cup {source})
             ELSE Citations(Tail(source_documents), seen_sources)

\* format_sources without seen_sources: a citation for every document
RECURSIVE format_sources_every_chunk(_)
format_sources_every_chunk(source_documents) ==
    IF source_documents = <<>> THEN <<>>
    ELSE <<[source |-> Head(source_documents).metadata.source,
            info |-> ChunkInfo(Head(source_documents).metadata)]>>
            \o format_sources_every_chunk(Tail(source_documents))

\* QAChainManager.format_sources: the citation lines (<<>> is "No sources found")
format_sources(source_documents) == Citations(source_documents, {})

----------------------------------------------------------------------------
(* Inputs: the files a user uploads, the questions asked, the model's outputs *)

File(name, bytes) == [name |-> name, bytes |-> bytes]

\* a.txt: two lines of text
FileA == File(<<"a", ".", "t", "x", "t">>,
              FileBytes(6, TRUE, << <<"a", "i", "m", "\n", "x", "y">> >>))
\* b.PDF: one page
FileB == File(<<"b", ".", "P", "D", "F">>, FileBytes(900, TRUE, << <<"g", "o">> >>))
\* c.xyz: not a supported format
FileC == File(<<"c", ".", "x", "y", "z">>, FileBytes(2, TRUE, << <<"h", "i">> >>))
\* d.pdf: bytes PyPDF2 rejects
FileD == File(<<"d", ".", "p", "d", "f">>, FileBytes(3, FALSE, <<>>))
\* e.txt: whitespace only
FileE == File(<<"e", ".", "t", "x", "t">>, FileBytes(2, TRUE, << <<" ", "\n">> >>))
\* f.txt: one byte over the size limit
FileF == File(<<"f", ".", "t", "x", "t">>,
              FileBytes(MAX_FILE_SIZE_BYTES + 1, TRUE, << <<"z">> >>))

Uploads == {FileA, FileB, FileC, FileD, FileE, FileF}
Sources == {f.name : f \in Uploads}

\* process_document of each file
Processed == [f \in Uploads |-> process_document(f.name, f.bytes)]

\* the batches add_documents is called with (the empty list among them)
Batches == {Processed[f].documents : f \in Uploads}

\* a goal-style question, a plain one, a whitespace-only one
Questions == {<<"a", "i", "m", "?">>, <<"h", "i">>, <<" ">>}
\* the language model's outputs: a short one and one of 12 characters
Generated == {<<"n", "o", "\n">>,
              <<"i", "t", " ", "i", "s", " ", "a", "b", "o", "u", "t", ".">>}

----------------------------------------------------------------------------
(* The sessions *)

Idle == [op |-> "none"]

\* what a handler that completed leaves in last[s]: the call, what it returned,
\* and the call before it (with its batch if that was an add_documents); cleared
\* says that a clear_all_documents has succeeded and no add_documents has since
Done(s, op, arg, ret, out, cleared) ==
    last' = [last EXCEPT ![s] =
               [op |-> op, arg |-> arg, ret |-> ret, out |-> out, cleared |-> cleared,
                prev |-> [op |-> last[s].op, ret |-> last[s].ret,
                          arg |-> IF last[s].op = "add_documents" THEN last[s].arg
                                  ELSE <<>>]]]

\* after initialize_session_state and initialize_managers in every session, over
\* a storage directory that holds no collection yet
Init ==
    /\ coll = NoCollection
    /\ vector_store = [s \in Sessions |-> initialize_vector_store(NoCollection)]
    /\ qa_chain = [s \in Sessions |-> FALSE]
    /\ retriever = [s \in Sessions |-> None]
    /\ chat_history = [s \in Sessions |-> <<>>]
    /\ pc = [s \in Sessions |-> "idle"]
    /\ frame = [s \in Sessions |-> Idle]
    /\ last = [s \in Sessions |->
                 [op |-> "init", arg |-> <<>>, ret |-> "", out |-> <<>>, cleared |-> FALSE,
                  prev |-> [op |-> "none", arg |-> <<>>, ret |-> ""]]]

\* the model's bounds on what the store may come to hold
WithinBounds(c) == c.id <= MaxColl /\ BagCardinality(c.docs) <= MaxChunks

\* a whole call of add_documents
AddDocuments(s, documents, fault) ==
    LET r == add_documents(vector_store[s], coll, documents, fault)
    IN  /\ pc[s] = "idle"
        /\ WithinBounds(r.coll)
        /\ coll' = r.coll
        /\ vector_store' = [vector_store EXCEPT ![s] = r.vector_store]
        /\ Done(s, "add_documents", documents, r.ret, <<>>,
                IF r.ret = "True" THEN FALSE ELSE last[s].cleared)
        /\ UNCHANGED <<qa_chain, retriever, chat_history, pc, frame>>

\* a whole call of delete_document (the sidebar's delete button, app.py 214-219)
DeleteDocument(s, source_name) ==
    LET r == delete_document(vector_store[s], coll, source_name)
    IN  /\ pc[s] = "idle"
        /\ coll' = r.coll
        /\ Done(s, "delete_document", source_name, r.ret, <<>>, last[s].cleared)
        /\ UNCHANGED <<vector_store, qa_chain, retriever, chat_history, pc, frame>>

\* the "Clear All Data" button (app.py 226-234): clear_all_documents, then the
\* chat history is emptied unless the call raised
ClearAllData(s) ==
    LET r == clear_all_documents(vector_store[s], coll)
    IN  /\ pc[s] = "idle"
        /\ coll' = r.coll
        /\ vector_store' = [vector_store EXCEPT ![s] = r.vector_store]
        /\ chat_history' = [chat_history EXCEPT ![s] = IF r.ret = "True" THEN <<>> ELSE @]
        /\ Done(s, "clear_all_documents", <<>>, r.ret, <<>>,
                IF r.ret = "True" THEN TRUE ELSE last[s].cleared)
        /\ UNCHANGED <<qa_chain, retriever, pc, frame>>

\* a whole call of similarity_search
SimilaritySearch(s, query) ==
    LET r == similarity_search(vector_store[s], coll, query, TOP_K_RESULTS)
    IN  /\ pc[s] = "idle"
        /\ Done(s, "similarity_search", query, r.ret, r.value, last[s].cleared)
        /\ UNCHANGED <<coll, vector_store, qa_chain, retriever, chat_history, pc, frame>>

\* the sidebar's document list (app.py 201-206)
Sidebar(s) ==
    LET documents == get_all_documents(vector_store[s], coll)
        chunk_count == get_document_count(vector_store[s], coll)
    IN  /\ pc[s] = "idle"
        /\ Done(s, "sidebar", <<>>, documents.ret, <<documents.value, chunk_count>>,
                last[s].cleared)
        /\ UNCHANGED <<coll, vector_store, qa_chain, retriever, chat_history, pc, frame>>

\* the process restarts: a new session state with new managers over the same storage
Restart(s) ==
    /\ pc[s] = "idle"
    /\ vector_store' = [vector_store EXCEPT ![s] = initialize_vector_store(coll)]
    /\ qa_chain' = [qa_chain EXCEPT ![s] = FALSE]
    /\ retriever' = [retriever EXCEPT ![s] = None]
    /\ chat_history' = [chat_history EXCEPT ![s] = <<>>]
    /\ Done(s, "restart", <<>>, "", <<>>, last[s].cleared)
    /\ UNCHANGED <<coll, pc, frame>>

\* one chat turn (app.py 305-309)
Turn(question, answer, sources) ==
    [question |-> question, answer |-> answer, sources |-> sources]

\* a faulty question box: a question that failed is added to the history with an
\* empty answer
Ask_records_failure(s, question, fault, generated) ==
    LET vs == get_vector_store(vector_store[s])
        r == ask_question(qa_chain[s], retriever[s], question, vs, coll, fault, generated)
    IN  /\ pc[s] = "idle"
        /\ get_document_count(vector_store[s], coll) # 0
        /\ strip(question) # <<>>
        /\ Len(chat_history[s]) < MaxChat
        /\ qa_chain' = [qa_chain EXCEPT ![s] = r.qa_chain]
        /\ retriever' = [retriever EXCEPT ![s] = r.retriever]
        /\ chat_history' =
             [chat_history EXCEPT ![s] =
                Append(@, Turn(question, r.answer, format_sources(r.source_documents)))]
        /\ Done(s, "ask", question, r.ret,
                [passed |-> vs, used |-> r.used, fault |-> fault], last[s].cleared)
        /\ UNCHANGED <<coll, vector_store, pc, frame>>

\* the question box of display_chat_interface (app.py 243-315): shown only while
\* the index holds chunks; a whitespace-only question gets a warning; otherwise
\* ask_question runs and, unless it raises, the turn is appended to the history
Ask(s, question, fault, generated) ==
    LET vs == get_vector_store(vector_store[s])
        r == ask_question(qa_chain[s], retriever[s], question, vs, coll, fault, generated)
        out == [passed |-> vs, used |-> r.used, fault |-> fault]
    IN  /\ pc[s] = "idle"
        /\ get_document_count(vector_store[s], coll) # 0
        /\ question # <<>>
        /\ IF strip(question) = <<>>
           THEN /\ Done(s, "ask", question, "warning", out, last[s].cleared)
                /\ UNCHANGED <<qa_chain, retriever, chat_history>>
           ELSE /\ r.ret = "ok" => Len(chat_history[s]) < MaxChat
                /\ qa_chain' = [qa_chain EXCEPT ![s] = r.qa_chain]
                /\ retriever' = [retriever EXCEPT ![s] = r.retriever]
                /\ chat_history' =
                     [chat_history EXCEPT ![s] =
                        IF r.ret = "ok"
                        THEN Append(@, Turn(question, r.answer,
                                            format_sources(r.source_documents)))
                        ELSE @]
                /\ Done(s, "ask", question, r.ret, out, last[s].cleared)
        /\ UNCHANGED <<coll, vector_store, pc, frame>>

\* the loop of handle_file_upload over the files not yet processed: each item is
\* a file and the fault its index write meets; doc_processor is the session's
\* DocumentProcessor, the function from a file to what process_document does with it
RECURSIVE UploadLoop(_, _, _, _, _, _)
UploadLoop(doc_processor, vs, c, items, success_count, error_count) ==
    IF items = <<>>
    THEN [vector_store |-> vs, coll |-> c,
          success_count |-> success_count, error_count |-> error_count]
    ELSE LET p == doc_processor[Head(items).file]
             r == add_documents(vs, c, p.documents, Head(items).fault)
         IN  IF p.ret = "raise"
             THEN UploadLoop(doc_processor, vs, c, Tail(items),
                             success_count, error_count + 1)
             ELSE IF r.ret = "raise"
             THEN UploadLoop(doc_processor, r.vector_store, r.coll, Tail(items),
                             success_count, error_count + 1)
             ELSE UploadLoop(doc_processor, r.vector_store, r.coll, Tail(items),
                             success_count + 1, error_count)

\* a faulty loop: the first file that fails ends the batch
RECURSIVE UploadLoopAborting(_, _, _, _, _)
UploadLoopAborting(doc_processor, vs, c, items, success_count) ==
    IF items = <<>>
    THEN [vector_store |-> vs, coll |-> c,
          success_count |-> success_count, error_count |-> 0]
    ELSE LET p == doc_processor[Head(items).file]
             r == add_documents(vs, c, p.documents, Head(items).fault)
         IN  IF p.ret = "raise"
             THEN [vector_store |-> vs, coll |-> c,
                   success_count |-> success_count, error_count |-> 1]
             ELSE IF r.ret = "raise"
             THEN [vector_store |-> r.vector_store, coll |-> r.coll,
                   success_count |-> success_count, error_count |-> 1]
             ELSE UploadLoopAborting(doc_processor, r.vector_store, r.coll, Tail(items),
                                     success_count + 1)

handle_file_upload_aborting(doc_processor, vs, c, items) ==
    UploadLoopAborting(doc_processor, vs, c, items, 0)

\* handle_file_upload(uploaded_files)
handle_file_upload(doc_processor, vs, c, items) ==
    UploadLoop(doc_processor, vs, c, items, 0, 0)

\* the uploads of up to MaxBatch files: a file that yields two chunks, one whose
\* index write fails, one of an unsupported format, one the PDF reader rejects
UploadItems ==
    {[file |-> FileA, fault |-> "none"], [file |-> FileB, fault |-> "write"],
     [file |-> FileC, fault |-> "none"], [file |-> FileD, fault |-> "none"]}
UploadBatches == UNION {[1..n -> UploadItems] : n \in 1..MaxBatch}

\* the "Process Documents" button (app.py 190-194)
Upload(s, items, doc_processor) ==
    LET r == handle_file_upload(doc_processor, vector_store[s], coll, items)
    IN  /\ pc[s] = "idle"
        /\ WithinBounds(r.coll)
        /\ coll' = r.coll
        /\ vector_store' = [vector_store EXCEPT ![s] = r.vector_store]
        /\ Done(s, "upload", items, "",
                [success_count |-> r.success_count, error_count |-> r.error_count],
                IF r.success_count > 0 THEN FALSE ELSE last[s].cleared)
        /\ UNCHANGED <<qa_chain, retriever, chat_history, pc, frame>>

\* one user, one request at a time
User == "s1"

\* the index operations of one session
Next ==
    \/ \E documents \in Batches, fault \in Faults : AddDocuments(User, documents, fault)
    \/ \E source_name \in {FileA.name, FileB.name, FileC.name} :
          DeleteDocument(User, source_name)
    \/ ClearAllData(User)
    \/ SimilaritySearch(User, <<"h", "i">>)
    \/ Sidebar(User)
    \/ Restart(User)

Spec == Init /\ [][Next]_vars

\* questions of one session over an index that is filled and cleared
NextQA ==
    \/ \E f \in {FileA, FileB} : AddDocuments(User, Processed[f].documents, "none")
    \/ ClearAllData(User)
    \/ \E q \in Questions, fault \in AskFaults :
          Ask(User, q, fault, <<"n", "o", "\n">>)

SpecQA == Init /\ [][NextQA]_vars

\* uploads of one session
NextUpload ==
    \/ \E items \in UploadBatches, doc_processor \in {Processed} :
          Upload(User, items, doc_processor)
    \/ ClearAllData(User)

SpecUpload == Init /\ [][NextUpload]_vars

----------------------------------------------------------------------------
(* process_document as a function of the file (SpecIngest) *)

\* the texts of up to MaxText characters over a letter, a blank and a newline
Texts == UNION {[1..n -> {"a", " ", "\n"}] : n \in 0..MaxText}

\* a text long enough for several chunks
LongText == <<"a", "b", " ", "c", "d", "\n", "e", "f", "g", "h", "i">>

\* file names of every supported extension in several spellings, of extensions
\* that are not supported, and without an extension
ValidationNames ==
    {<<"a", ".", "p", "d", "f">>, <<"a", ".", "P", "D", "F">>, <<"a", ".", "T", "x", "t">>,
     <<"a", ".", "d", "o", "c", "x">>, <<"a", ".", "d", "o", "c">>, <<"a", ".", "x", "y", "z">>,
     <<"a">>, <<".", "p", "d", "f">>, <<"t", "x", "t">>,
     <<"a", ".", "p", "d", "f", ".", "b", "a", "k">>, <<"a", ".", "b", ".", "t", "x", "t">>,
     <<"a", ".", "t", "x", "t", " ">>, <<"a", ".", "t", "x", "t", "/", "b">>}

\* file sizes around the limit
ValidationSizes == {0, 1, MAX_FILE_SIZE_BYTES - 1, MAX_FILE_SIZE_BYTES, MAX_FILE_SIZE_BYTES + 1}

\* the files: each text as a TXT, as a one-page PDF and as a one-paragraph DOCX,
\* a long text in each format, every name above at every size above, and the
\* uploads above
IngestFiles ==
    Uploads
    \cup {File(n, FileBytes(size, TRUE, << <<"a">> >>)) :
            n \in ValidationNames, size \in ValidationSizes}
    \cup {File(<<"n", ".", "t", "x", "t">>, FileBytes(Len(t), TRUE, <<t>>)) : t \in Texts}
    \cup {File(<<"n", ".", "p", "d", "f">>, FileBytes(900, TRUE, <<t>>)) : t \in Texts}
    \cup {File(<<"n", ".", "D", "o", "c", "x">>, FileBytes(900, TRUE, <<t>>)) : t \in Texts}
    \cup {File(<<"l", ".", "t", "x", "t">>, FileBytes(11, TRUE, <<LongText>>)),
          File(<<"l", ".", "p", "d", "f">>, FileBytes(900, TRUE, <<LongText, <<>>, LongText>>)),
          File(<<"l", ".", "d", "o", "c", "x">>, FileBytes(900, TRUE, <<LongText, LongText>>))}

\* the session's DocumentProcessor over these files
Ingested == [f \in IngestFiles |-> process_document(f.name, f.bytes)]

\* a file is given to the session's DocumentProcessor
InitIngest ==
    /\ coll = NoCollection
    /\ vector_store = [s \in Sessions |-> initialize_vector_store(NoCollection)]
    /\ qa_chain = [s \in Sessions |-> FALSE]
    /\ retriever = [s \in Sessions |-> None]
    /\ chat_history = [s \in Sessions |-> <<>>]
    /\ pc = [s \in Sessions |-> IF s = User THEN "process_document" ELSE "idle"]
    /\ \E f \in IngestFiles :
          frame = [s \in Sessions |-> IF s = User THEN [op |-> "process_document", file |-> f]
                                      ELSE Idle]
    /\ last = [s \in Sessions |->
                 [op |-> "init", arg |-> <<>>, ret |-> "", out |-> <<>>, cleared |-> FALSE,
                  prev |-> [op |-> "none", arg |-> <<>>, ret |-> ""]]]

\* doc_processor.process_document(file_name, file_bytes) returns or raises
ProcessDocument(s, doc_processor) ==
    LET r == doc_processor[frame[s].file]
    IN  /\ pc[s] = "process_document"
        /\ pc' = [pc EXCEPT ![s] = "idle"]
        /\ frame' = [frame EXCEPT ![s] = Idle]
        /\ Done(s, "process_document", frame[s].file, r.ret,
                [documents |-> r.documents, error |-> r.error], last[s].cleared)
        /\ UNCHANGED <<coll, vector_store, qa_chain, retriever, chat_history>>

NextIngest == \E doc_processor \in {Ingested} : ProcessDocument(User, doc_processor)

SpecIngest == InitIngest /\ [][NextIngest]_vars

\* the format's reader accepts the file and some character of its text is left
\* after the clean-up
HasText(f) ==
    LET file_ext == lower(splitext(f.name))
        ex == IF file_ext = EXT_PDF THEN extract_text_from_pdf(f.bytes)
              ELSE IF file_ext = EXT_DOCX THEN extract_text_from_docx(f.bytes)
              ELSE extract_text_from_txt(f.bytes)
    IN  ex.ret = "ok" /\ \E i \in DOMAIN ex.text : ~IsSpace(ex.text[i])

\* C10: process_document on a file of a supported format within the size limit,
\* whose text is not empty, returns N >= 1 chunks; the chunk at position i
\* (from 0) has chunk_index i, and every chunk has total_chunks N and the file
\* name as its source
C10_ChunkIndices ==
    last[User].op = "process_document" =>
        LET f == last[User].arg
            documents == last[User].out.documents
            N == Len(documents)
        IN  /\ (validate_file(f.name, f.bytes.size)[1] /\ HasText(f)) => last[User].ret = "ok"
            /\ last[User].ret = "ok" =>
                 /\ N >= 1
                 /\ \A i \in 0..(N - 1) :
                       /\ documents[i + 1].metadata.chunk_index = i
                       /\ documents[i + 1].metadata.total_chunks = N
                       /\ documents[i + 1].metadata.source = f.name

\* a PDF of several pages came out as more than two chunks
C10_Witness ==
    /\ last[User].op = "process_document"
    /\ last[User].ret = "ok"
    /\ lower(splitext(last[User].arg.name)) = EXT_PDF
    /\ Len(last[User].arg.bytes.parts) > 1
    /\ Len(last[User].out.documents) > 2

\* the extension of a name, lower-cased, is .pdf, .txt or .docx
SupportedName(name) ==
    lower(splitext(name)) \in {<<".", "p", "d", "f">>, <<".", "t", "x", "t">>,
                               <<".", "d", "o", "c", "x">>}

\* at most 10 MiB
WithinLimit(size) == size <= 10 * 1024 * 1024

\* C11: validate_file accepts a file exactly when the extension of its name,
\* whatever its case, is .pdf, .txt or .docx and its size is at most 10 MiB;
\* process_document raises on every file validate_file rejects, with the
\* unsupported-format error whenever the extension is not supported (also when
\* the size is over the limit too) and with the size error otherwise
C11_ValidateFile ==
    last[User].op = "process_document" =>
        LET f == last[User].arg
            accepted == validate_file(f.name, f.bytes.size)[1]
        IN  /\ accepted <=> (SupportedName(f.name) /\ WithinLimit(f.bytes.size))
            /\ ~SupportedName(f.name) =>
                 last[User].ret = "raise" /\ last[User].out.error = "unsupported"
            /\ (SupportedName(f.name) /\ ~WithinLimit(f.bytes.size)) =>
                 last[User].ret = "raise" /\ last[User].out.error = "too_large"
            /\ accepted => last[User].out.error \notin {"unsupported", "too_large"}

\* a.PDF of exactly 10 MiB was accepted and chunked
C11_Witness ==
    /\ last[User].op = "process_document"
    /\ last[User].arg.name = <<"a", ".", "P", "D", "F">>
    /\ last[User].arg.bytes.size = MAX_FILE_SIZE_BYTES
    /\ last[User].ret = "ok"

----------------------------------------------------------------------------
(* _clean_text as a function of the raw text (SpecClean) *)

\* what raw texts are put together from: the two halves of a page marker, the
\* white-space characters, a letter and a hyphen
Pieces ==
    {<<"-", "-", "-", " ", "P", "a", "g", "e">>, <<"1", " ", "-", "-", "-">>,
     <<" ">>, <<"\t">>, <<"\n">>, <<"\r">>, <<"a">>, <<"-">>}

\* the raw texts of up to MaxPieces pieces
RawTexts == {join(<<>>, ps) : ps \in UNION {[1..n -> Pieces] : n \in 0..MaxPieces}}

\* what follows a raw text: nothing, a letter, a letter on the next line
Continuations == {<<>>, <<"b">>, <<"\n", "b">>}

\* a raw text a and a continuation b are given to the DocumentProcessor
InitClean ==
    /\ coll = NoCollection
    /\ vector_store = [s \in Sessions |-> initialize_vector_store(NoCollection)]
    /\ qa_chain = [s \in Sessions |-> FALSE]
    /\ retriever = [s \in Sessions |-> None]
    /\ chat_history = [s \in Sessions |-> <<>>]
    /\ pc = [s \in Sessions |-> IF s = User THEN "clean_text" ELSE "idle"]
    /\ \E a \in RawTexts, b \in Continuations :
          frame = [s \in Sessions |-> IF s = User THEN [op |-> "clean_text", a |-> a, b |-> b]
                                      ELSE Idle]
    /\ last = [s \in Sessions |->
                 [op |-> "init", arg |-> <<>>, ret |-> "", out |-> <<>>, cleared |-> FALSE,
                  prev |-> [op |-> "none", arg |-> <<>>, ret |-> ""]]]

\* _clean_text(a + b)
CleanText(s) ==
    /\ pc[s] = "clean_text"
    /\ pc' = [pc EXCEPT ![s] = "clean_again"]
    /\ Done(s, "clean_text", frame[s].a \o frame[s].b, "ok",
            clean_text(frame[s].a \o frame[s].b), last[s].cleared)
    /\ UNCHANGED <<coll, vector_store, qa_chain, retriever, chat_history, frame>>

\* _clean_text of what _clean_text returned
CleanAgain(s) ==
    /\ pc[s] = "clean_again"
    /\ pc' = [pc EXCEPT ![s] = "line_endings"]
    /\ Done(s, "clean_again", last[s].out, "ok", clean_text(last[s].out), last[s].cleared)
    /\ UNCHANGED <<coll, vector_store, qa_chain, retriever, chat_history, frame>>

\* _clean_text of a and b joined by each line ending
CleanLineEndings(s) ==
    /\ pc[s] = "line_endings"
    /\ pc' = [pc EXCEPT ![s] = "extract_pdf"]
    /\ Done(s, "line_endings", <<frame[s].a, frame[s].b>>, "ok",
            [crlf |-> clean_text(frame[s].a \o <<"\r", "\n">> \o frame[s].b),
             cr |-> clean_text(frame[s].a \o <<"\r">> \o frame[s].b),
             lf |-> clean_text(frame[s].a \o <<"\n">> \o frame[s].b)],
            last[s].cleared)
    /\ UNCHANGED <<coll, vector_store, qa_chain, retriever, chat_history, frame>>

\* extract_text_from_pdf of a PDF whose pages have the texts a and b
ExtractPdf(s) ==
    /\ pc[s] = "extract_pdf"
    /\ pc' = [pc EXCEPT ![s] = "idle"]
    /\ frame' = [frame EXCEPT ![s] = Idle]
    /\ Done(s, "extract_pdf", <<frame[s].a, frame[s].b>>, "ok",
            extract_text_from_pdf(FileBytes(900, TRUE, <<frame[s].a, frame[s].b>>)).text,
            last[s].cleared)
    /\ UNCHANGED <<coll, vector_store, qa_chain, retriever, chat_history>>

NextClean ==
    \/ CleanText(User)
    \/ CleanAgain(User)
    \/ CleanLineEndings(User)
    \/ ExtractPdf(User)

SpecClean == InitClean /\ [][NextClean]_vars

\* C12: cleaning a cleaned text changes nothing
C12_CleanIdempotent ==
    last[User].op = "clean_again" => last[User].out = last[User].arg

\* a page's text that holds a letter and no newline, carriage return or hyphen
PlainPage(t) ==
    /\ clean_text(t) # <<>>
    /\ \A i \in DOMAIN t : t[i] \notin {"\n", "\r", "-"}

\* C13: in the cleaned text of a PDF of two pages, the text of the first page
\* and the text of the second are separated by exactly two newlines
C13_PageBreakIsParagraph ==
    (/\ last[User].op = "extract_pdf"
     /\ PlainPage(last[User].arg[1])
     /\ PlainPage(last[User].arg[2])) =>
        last[User].out = clean_text(last[User].arg[1]) \o <<"\n", "\n">>
                            \o clean_text(last[User].arg[2])

\* C14: a and b joined by CR LF, by CR and by LF clean to the same text
C14_LineEndingsAlike ==
    last[User].op = "line_endings" =>
        /\ last[User].out.crlf = last[User].out.lf
        /\ last[User].out.cr = last[User].out.lf

----------------------------------------------------------------------------
(* QAChainManager called on an index that is already there (SpecAnswer) *)

\* an indexed chunk
Chunk(page_content, source, idx, doc_metadata) ==
    [page_content |-> page_content,
     metadata |-> doc_metadata @@ [source |-> source, chunk_index |-> idx, total_chunks |-> 3]]

\* the chunks the index is filled from: with and without a keyword, of three files
AnswerChunks ==
    {Chunk(<<"a", "i", "m">>, <<"a", ".", "t", "x", "t">>, 0, [lines |-> 3]),
     Chunk(<<"x", "\n", " ", "G", "o", "a", "l", " ", "\n", "\n", "z">>,
           <<"b", ".", "t", "x", "t">>, 1, [lines |-> 3]),
     Chunk(<<"x", "y">>, <<"a", ".", "t", "x", "t">>, 2, [lines |-> 3]),
     Chunk(<<"x", "y">>, <<"c", ".", "P", "D", "F">>, 0, [pages |-> 2])}

\* the questions: with a keyword (lower and upper case), without, empty, blank
AnswerQuestions ==
    {<<"a", "i", "m", "?">>, <<"M", "y", " ", "G", "O", "A", "L">>, <<"h", "i">>,
     <<>>, <<" ">>, <<"\n", "\t", " ">>}

\* the language model's outputs: of 2, 9, 10 and 11 characters once stripped
AnswerTexts ==
    {<<" ", "n", "o", "\n">>,
     <<" ", "i", "t", " ", "i", "s", " ", "o", "n", "e", "\n">>,
     <<"i", "t", " ", "i", "s", " ", "o", "n", "e", ".">>,
     <<"i", "t", " ", "i", "s", " ", "t", "h", "i", "s", ".">>}

\* the index holds up to MaxIndexed chunks and the manager is bound to it, or
\* there is no collection and no handle
InitAnswer ==
    /\ \E documents \in UNION {[1..n -> AnswerChunks] : n \in 0..MaxIndexed} :
          /\ coll = IF documents = <<>> THEN NoCollection
                    ELSE upsert(get_or_create_collection(NoCollection), documents)
          /\ vector_store = [s \in Sessions |-> initialize_vector_store(coll)]
    /\ qa_chain = [s \in Sessions |-> FALSE]
    /\ retriever = [s \in Sessions |-> None]
    /\ chat_history = [s \in Sessions |-> <<>>]
    /\ pc = [s \in Sessions |-> "idle"]
    /\ frame = [s \in Sessions |-> Idle]
    /\ last = [s \in Sessions |->
                 [op |-> "init", arg |-> <<>>, ret |-> "", out |-> <<>>, cleared |-> FALSE,
                  prev |-> [op |-> "none", arg |-> <<>>, ret |-> ""]]]

\* the external calls of one ask_question, in order
ask_question_calls(chain, bound, question, vs, c, fault) ==
    LET create == IF chain THEN <<>> ELSE <<"create_qa_chain">>
        got == Retrieve(BoundStore(chain, bound, vs), c)
    IN  IF strip(question) = <<>> THEN <<>>
        ELSE IF ~chain /\ vs = None THEN create
        ELSE IF got.ret = "raise" \/ fault = "retrieve"
        THEN create \o <<"get_relevant_documents">>
        ELSE create \o <<"get_relevant_documents", "invoke">>

\* the calls made: every question with every fault; every output of the model
\* where the model is reached
AskInputs ==
    {x \in [question : AnswerQuestions, fault : AskFaults, generated : AnswerTexts] :
        (strip(x.question) = <<>> \/ x.fault # "none") =>
            x.generated = <<" ", "n", "o", "\n">>}

\* a whole call of ask_question
AskQuestion(s, x) ==
    \E r \in {ask_question(qa_chain[s], retriever[s], x.question,
                           get_vector_store(vector_store[s]), coll, x.fault, x.generated)} :
        /\ pc[s] = "idle"
        /\ qa_chain' = [qa_chain EXCEPT ![s] = r.qa_chain]
        /\ retriever' = [retriever EXCEPT ![s] = r.retriever]
        /\ pc' = [pc EXCEPT ![s] = IF r.ret = "ok" THEN "format_sources" ELSE "idle"]
        /\ Done(s, "ask_question", [question |-> x.question, generated |-> x.generated],
                r.ret,
                [answer |-> r.answer, source_documents |-> r.source_documents,
                 calls |-> ask_question_calls(qa_chain[s], retriever[s], x.question,
                                              get_vector_store(vector_store[s]), coll,
                                              x.fault)],
                last[s].cleared)
        /\ UNCHANGED <<coll, vector_store, chat_history, frame>>

\* the documents of the response just returned, in the orders a ranking can
\* give them
Orderings(s) ==
    IF pc[s] # "format_sources" THEN {}
    ELSE LET source_documents == last[s].out.source_documents
         IN  {[i \in DOMAIN source_documents |-> source_documents[p[i]]] :
                 p \in Permutations(DOMAIN source_documents)}

\* format_sources of the source_documents of a response
FormatSources(s, source_documents) ==
    /\ pc[s] = "format_sources"
    /\ pc' = [pc EXCEPT ![s] = "idle"]
    /\ Done(s, "format_sources", source_documents, "ok",
            format_sources(source_documents), last[s].cleared)
    /\ UNCHANGED <<coll, vector_store, qa_chain, retriever, chat_history, frame>>

NextAnswer ==
    \/ \E x \in AskInputs : AskQuestion(User, x)
    \/ \E source_documents \in Orderings(User) :
          FormatSources(User, source_documents)
    \/ ClearAllData(User)

SpecAnswer == InitAnswer /\ [][NextAnswer]_vars

\* some line of some retrieved chunk holds a keyword, and so does the question
SnippetExists(question, source_docs) ==
    /\ \E n \in DOMAIN keywords : Contains(lower(question), keywords[n])
    /\ \E d \in DOMAIN source_docs :
          LET lines == SplitLines(source_docs[d].page_content, 1)
          IN  \E l \in DOMAIN lines, n \in DOMAIN keywords :
                 Contains(lower(lines[l]), keywords[n])

\* C15: the answer of ask_question is the extractive snippet exactly when a
\* snippet exists and the stripped generated answer has fewer than 10
\* characters or the snippet is shorter than 0.7 times its length; otherwise it
\* is the stripped generated answer
C15_AnswerChoice ==
    (last[User].op = "ask_question" /\ last[User].ret = "ok") =>
        LET question == last[User].arg.question
            source_docs == last[User].out.source_documents
            answer == strip(last[User].arg.generated)
            snippet == Extractive(question, source_docs)
            prefer == /\ SnippetExists(question, source_docs)
                      /\ \/ Len(answer) < 10
                         \/ 10 * Len(snippet[2]) < 7 * Len(answer)
        IN  /\ snippet[1] <=> SnippetExists(question, source_docs)
            /\ last[User].out.answer = IF prefer THEN snippet[2] ELSE answer

\* an answer of 11 characters with blanks around it, 9 once stripped, is
\* replaced by a snippet that is longer than it
C15_Witness ==
    /\ last[User].op = "ask_question" /\ last[User].ret = "ok"
    /\ SnippetExists(last[User].arg.question, last[User].out.source_documents)
    /\ Len(last[User].arg.generated) = 11
    /\ Len(strip(last[User].arg.generated)) = 9
    /\ Len(last[User].out.answer) > 9
    /\ last[User].out.answer # strip(last[User].arg.generated)

\* a snippet of 7 characters does not replace an answer of 10
C15_Boundary ==
    /\ last[User].op = "ask_question" /\ last[User].ret = "ok"
    /\ Len(strip(last[User].arg.generated)) = 10
    /\ Len(Extractive(last[User].arg.question, last[User].out.source_documents)[2]) = 7
    /\ last[User].out.answer = last[User].arg.generated

\* the position of the first document of a source
FirstOf(source_documents, source) ==
    CHOOSE d \in DOMAIN source_documents :
        /\ source_documents[d].metadata.source = source
        /\ \A e \in 1..(d - 1) : source_documents[e].metadata.source # source

\* C16: format_sources cites every source of the documents it is given, each
\* once, in the order in which the sources first occur among the documents
C16_SourcesOnce ==
    last[User].op = "format_sources" =>
        LET source_documents == last[User].arg
            citations == last[User].out
        IN  /\ {citations[i].source : i \in DOMAIN citations}
                 = {source_documents[d].metadata.source : d \in DOMAIN source_documents}
            /\ \A i \in DOMAIN citations, j \in DOMAIN citations :
                  i < j => FirstOf(source_documents, citations[i].source)
                              < FirstOf(source_documents, citations[j].source)

\* three documents cited as two sources: a chunk of another file stands between
\* two chunks of one file
C16_Witness ==
    /\ last[User].op = "format_sources"
    /\ Len(last[User].arg) = 3
    /\ last[User].arg[1].metadata.source = last[User].arg[3].metadata.source
    /\ last[User].arg[1].metadata.source # last[User].arg[2].metadata.source
    /\ Len(last[User].out) = 2

\* C17: ask_question with an empty or whitespace-only question raises the
\* empty-question error without a retrieval or a call of the language model,
\* and leaves the cached chain and retriever as they were
C17_EmptyQuestion ==
    [][(/\ last'[User].op = "ask_question"
        /\ pc[User] = "idle"
        /\ strip(last'[User].arg.question) = <<>>) =>
           /\ last'[User].ret = "raise_empty"
           /\ last'[User].out.calls = <<>>
           /\ last'[User].out.source_documents = <<>>
           /\ qa_chain'[User] = qa_chain[User]
           /\ retriever'[User] = retriever[User]]_vars

\* a blank question put to a manager whose chain is cached and whose retriever
\* is bound to a collection that has been cleared since
C17_Witness ==
    /\ last[User].op = "ask_question"
    /\ last[User].ret = "raise_empty"
    /\ last[User].arg.question # <<>>
    /\ qa_chain[User]
    /\ retriever[User] # None
    /\ ~coll.exists

\* a blank question put to a manager that has no chain yet
C17_NoChainYet ==
    /\ last[User].op = "ask_question"
    /\ last[User].ret = "raise_empty"
    /\ ~qa_chain[User]
    /\ vector_store[User] # None

----------------------------------------------------------------------------
(* A question asked while another session changes the index (SpecAsk): the    *)
(* steps of ask_question are its two retrievals, the one whose documents are  *)
(* returned and the one inside the chain whose documents become the context   *)

Asker == "s1"
Other == "s2"

\* ask_question up to source_docs = self.retriever.get_relevant_documents(question)
AskRetrieve(s, question) ==
    LET store == BoundStore(qa_chain[s], retriever[s], get_vector_store(vector_store[s]))
        got == Retrieve(store, coll)
    IN  /\ pc[s] = "idle"
        /\ strip(question) # <<>>
        /\ store # None
        /\ qa_chain' = [qa_chain EXCEPT ![s] = TRUE]
        /\ retriever' = [retriever EXCEPT ![s] = store]
        /\ IF got.ret = "raise"
           THEN /\ Done(s, "ask_question", question, "raise", <<>>, last[s].cleared)
                /\ UNCHANGED <<pc, frame>>
           ELSE /\ pc' = [pc EXCEPT ![s] = "invoke"]
                /\ frame' = [frame EXCEPT ![s] = [op |-> "ask_question",
                                                  question |-> question,
                                                  source_docs |-> got.value]]
                /\ UNCHANGED last
        /\ UNCHANGED <<coll, vector_store, chat_history>>

\* answer = self.qa_chain.invoke(question): the chain's retriever fetches the
\* context, the model generates; then the response is put together
AskInvoke(s, generated) ==
    LET context == Retrieve(retriever[s], coll)
    IN  /\ pc[s] = "invoke"
        /\ pc' = [pc EXCEPT ![s] = "idle"]
        /\ frame' = [frame EXCEPT ![s] = Idle]
        /\ IF context.ret = "raise"
           THEN Done(s, "ask_question", frame[s].question, "raise", <<>>, last[s].cleared)
           ELSE Done(s, "ask_question", frame[s].question, "ok",
                     [answer |-> FinalAnswer(frame[s].question, frame[s].source_docs,
                                             generated),
                      source_documents |-> frame[s].source_docs,
                      context |-> context.value],
                     last[s].cleared)
        /\ UNCHANGED <<coll, vector_store, qa_chain, retriever, chat_history>>

\* the chunks of a.txt and b.txt
AskChunks ==
    {d \in AnswerChunks :
        d.metadata.source \in {<<"a", ".", "t", "x", "t">>, <<"b", ".", "t", "x", "t">>}}

\* both sessions are bound to an index of chunks of a.txt and b.txt
InitAsk ==
    /\ InitAnswer
    /\ coll.exists
    /\ \A d \in BagToSet(coll.docs) : d \in AskChunks

\* the other session uploads a file, deletes one or clears the index, twice at most
OtherAdd(s, d) == last[s].prev.op = "none" /\ AddDocuments(s, <<d>>, "none")
OtherDelete(s, source_name) == last[s].prev.op = "none" /\ DeleteDocument(s, source_name)
OtherClear(s) == last[s].prev.op = "none" /\ ClearAllData(s)

NextAsk ==
    \/ AskRetrieve(Asker, <<"a", "i", "m", "?">>)
    \/ AskInvoke(Asker, <<" ", "n", "o", "\n">>)
    \/ \E d \in AskChunks : OtherAdd(Other, d)
    \/ \E d \in AskChunks : OtherDelete(Other, d.metadata.source)
    \/ OtherClear(Other)

SpecAsk == InitAsk /\ [][NextAsk]_vars

\* C20: the source_documents of a response are the chunks of the context the
\* language model was given, in the same order
C20_SourcesAreContext ==
    (last[Asker].op = "ask_question" /\ last[Asker].ret = "ok") =>
        last[Asker].out.source_documents = last[Asker].out.context

----------------------------------------------------------------------------
(* Two sessions, each with its own VectorStoreManager over the same storage  *)
(* (initialize_managers builds the managers per session); the store's calls  *)
(* of the two sessions interleave (SpecConc)                                 *)

\* add_documents is entered with a batch that is not empty: the manager's handle
\* is read, and a manager without one goes on to Chroma.from_documents
AddBegin(s, documents) ==
    /\ pc[s] = "idle"
    /\ documents # <<>>
    /\ pc' = [pc EXCEPT ![s] = IF vector_store[s] = None THEN "add_create" ELSE "add_write"]
    /\ frame' = [frame EXCEPT ![s] = [op |-> "add_documents", documents |-> documents,
                                      handle |-> vector_store[s]]]
    /\ UNCHANGED <<coll, vector_store, qa_chain, retriever, chat_history, last>>

\* Chroma.from_documents, first half: the constructor gets or creates the collection
AddCreate(s) ==
    LET c1 == get_or_create_collection(coll)
    IN  /\ pc[s] = "add_create"
        /\ c1.id <= MaxColl
        /\ coll' = c1
        /\ pc' = [pc EXCEPT ![s] = "add_write"]
        /\ frame' = [frame EXCEPT ![s].handle = c1.id]
        /\ UNCHANGED <<vector_store, qa_chain, retriever, chat_history, last>>

\* the batch is embedded and upserted into the handle's collection; the call
\* raises if that collection is gone, and from_documents' handle is assigned only
\* when it returns
AddWrite(s) ==
    LET live == HandleLive(frame[s].handle, coll)
        c1 == IF live THEN upsert(coll, frame[s].documents) ELSE coll
    IN  /\ pc[s] = "add_write"
        /\ WithinBounds(c1)
        /\ coll' = c1
        /\ vector_store' = [vector_store EXCEPT ![s] = IF live THEN frame[s].handle ELSE @]
        /\ pc' = [pc EXCEPT ![s] = "idle"]
        /\ frame' = [frame EXCEPT ![s] = Idle]
        /\ Done(s, "add_documents", frame[s].documents, IF live THEN "True" ELSE "raise",
                <<>>, IF live THEN FALSE ELSE last[s].cleared)
        /\ UNCHANGED <<qa_chain, retriever, chat_history>>

\* clear_all_documents is entered
ClearBegin(s) ==
    /\ pc[s] = "idle"
    /\ pc' = [pc EXCEPT ![s] = "clear_delete"]
    /\ frame' = [frame EXCEPT ![s] = [op |-> "clear_all_documents"]]
    /\ UNCHANGED <<coll, vector_store, qa_chain, retriever, chat_history, last>>

\* client.delete_collection: raises if there is no collection
ClearDelete(s) ==
    /\ pc[s] = "clear_delete"
    /\ IF coll.exists
       THEN /\ coll' = delete_collection(coll)
            /\ pc' = [pc EXCEPT ![s] = "clear_reset"]
            /\ UNCHANGED <<frame, last>>
       ELSE /\ pc' = [pc EXCEPT ![s] = "idle"]
            /\ frame' = [frame EXCEPT ![s] = Idle]
            /\ Done(s, "clear_all_documents", <<>>, "raise", <<>>, last[s].cleared)
            /\ UNCHANGED coll
    /\ UNCHANGED <<vector_store, qa_chain, retriever, chat_history>>

\* self.vector_store = None; return True; the caller empties the chat history
ClearReset(s) ==
    /\ pc[s] = "clear_reset"
    /\ vector_store' = [vector_store EXCEPT ![s] = None]
    /\ chat_history' = [chat_history EXCEPT ![s] = <<>>]
    /\ pc' = [pc EXCEPT ![s] = "idle"]
    /\ frame' = [frame EXCEPT ![s] = Idle]
    /\ Done(s, "clear_all_documents", <<>>, "True", <<>>, TRUE)
    /\ UNCHANGED <<coll, qa_chain, retriever>>

NextConc ==
    \E s \in Sessions :
        \/ \E f \in {FileA, FileB} : AddBegin(s, Processed[f].documents)
        \/ AddCreate(s)
        \/ AddWrite(s)
        \/ ClearBegin(s)
        \/ ClearDelete(s)
        \/ ClearReset(s)

SpecConc == Init /\ [][NextConc]_vars

----------------------------------------------------------------------------
(* Properties of the index operations (Spec) *)

\* the source every chunk of a batch carries
SourceOf(documents) == documents[1].metadata.source

\* the step is add_documents of a batch that returned True, directly followed by
\* delete_document of the batch's source
DeleteAfterAdd ==
    /\ last[User].op = "add_documents"
    /\ last[User].ret = "True"
    /\ DeleteDocument(User, SourceOf(last[User].arg))

\* what the delete leaves of source A: get_all_documents no longer lists it, no
\* chunk of it is stored, every chunk of another source is stored as before
DeletedOnly(A) ==
    /\ get_all_documents(vector_store'[User], coll').ret = "ok"
    /\ A \notin Range(get_all_documents(vector_store'[User], coll').value)
    /\ ChunksOf(coll', A) = EmptyBag
    /\ \A d \in BagToSet(coll.docs) :
          d.metadata.source # A => CopiesIn(d, coll'.docs) = CopiesIn(d, coll.docs)

\* C1: when add_documents of the chunks of document A has returned True and
\* delete_document(A) follows, get_all_documents no longer contains A, the chunks
\* of every other source are still indexed, and get_document_count is lower than
\* just before the delete by the number of indexed chunks whose source is A, which
\* is at least the number of chunks the add put in
C1_DeleteRemovesSource ==
    [][DeleteAfterAdd =>
         LET A == SourceOf(last[User].arg)
             n == BagCardinality(ChunksOf(coll, A))
         IN  /\ DeletedOnly(A)
             /\ n >= Len(last[User].arg)
             /\ get_document_count(vector_store'[User], coll')
                  = get_document_count(vector_store[User], coll) - n]_vars

\* C1 as stated: the count is lower by exactly the number of chunks that were added
C1_AsStated ==
    [][DeleteAfterAdd =>
         /\ DeletedOnly(SourceOf(last[User].arg))
         /\ get_document_count(vector_store'[User], coll')
              = get_document_count(vector_store[User], coll) - Len(last[User].arg)]_vars

\* a.txt was added and then deleted while chunks of another source stay indexed
C1_Witness ==
    /\ last[User].op = "delete_document"
    /\ last[User].ret = "True"
    /\ last[User].arg = FileA.name
    /\ last[User].prev.op = "add_documents"
    /\ last[User].prev.ret = "True"
    /\ last[User].prev.arg = Processed[FileA].documents
    /\ coll.docs # EmptyBag

\* C3: after clear_all_documents, and until the next add_documents that returns
\* True, get_document_count returns 0 and get_all_documents returns the empty list
C3_ClearedReadsEmpty ==
    (last[User].cleared \/ last[User].op = "clear_all_documents") =>
        /\ get_document_count(vector_store[User], coll) = 0
        /\ get_all_documents(vector_store[User], coll) = [ret |-> "ok", value |-> <<>>]

\* an add_documents has failed right after a clear that returned True, and left a
\* collection behind
C3_Witness ==
    /\ last[User].cleared
    /\ last[User].op = "add_documents"
    /\ last[User].ret = "raise"
    /\ last[User].prev.op = "clear_all_documents"
    /\ last[User].prev.ret = "True"
    /\ coll.exists

\* C4: after any call of add_documents, returned or raised, either every chunk of
\* the batch is in the collection or none is, and the manager holds a store handle
\* exactly if the collection exists
C4_AllOrNothing ==
    [][(\E documents \in Batches, fault \in Faults : AddDocuments(User, documents, fault)) =>
         /\ \/ coll'.docs = coll.docs (+) SeqToBag(last'[User].arg)
            \/ coll'.docs = coll.docs
         /\ (vector_store'[User] # None) <=> coll'.exists]_vars

C9_RestartKeepsIndex ==
    [][Restart(User) =>
         /\ get_document_count(vector_store'[User], coll')
              = get_document_count(vector_store[User], coll)
         /\ get_all_documents(vector_store'[User], coll')
              = get_all_documents(vector_store[User], coll)]_vars

\* the manager was rebuilt over an index that holds chunks after a delete
C9_Witness ==
    /\ last[User].op = "restart"
    /\ last[User].prev.op = "delete_document"
    /\ last[User].prev.ret = "True"
    /\ get_document_count(vector_store[User], coll) > 0

----------------------------------------------------------------------------
(* Properties of question answering (SpecQA) *)

\* C2: every ask_question that reaches retrieval retrieves from the vector store
\* passed in that call
C2_RetrievesFromPassedStore ==
    (last[User].op = "ask" /\ last[User].ret \in {"ok", "raise"}) =>
        last[User].out.used = last[User].out.passed

\* the step is a question of the session on which ask_question raised at the
\* retrieval or at the language-model call (every handler leaves its name in last)
AskRaised == last'[User].op = "ask" /\ last'[User].ret = "raise"

\* C7: when ask_question raises at the retrieval or at the language-model call,
\* no turn is added: the chat history and the index are as before the question
C7_FailedAskChangesNothing ==
    [][AskRaised =>
         /\ chat_history' = chat_history
         /\ coll' = coll
         /\ vector_store' = vector_store]_vars

\* the language-model call has failed on a question asked after an answered one
C7_Witness ==
    /\ last[User].op = "ask"
    /\ last[User].ret = "raise"
    /\ last[User].out.fault = "llm"
    /\ last[User].out.used = last[User].out.passed
    /\ chat_history[User] # <<>>
    /\ coll.docs # EmptyBag

----------------------------------------------------------------------------
(* Properties of the upload handler (SpecUpload) *)

\* the step is an upload of the session (every handler leaves its name in last)
Uploading == last'[User].op = "upload"

\* the file of an item passes process_document and its index write meets no fault
Succeeds(item) == Processed[item.file].ret # "raise" /\ item.fault = "none"

\* the chunks of the items of a batch that succeed
RECURSIVE ChunksOfSucceeding(_)
ChunksOfSucceeding(items) ==
    IF items = <<>> THEN EmptyBag
    ELSE (IF Succeeds(Head(items))
          THEN SeqToBag(Processed[Head(items).file].documents)
          ELSE EmptyBag) (+) ChunksOfSucceeding(Tail(items))

\* C8: handle_file_upload goes through the whole batch whatever fails in it: the
\* files that pass validation, extraction and the index write are counted in
\* success_count and all their chunks are indexed, wherever in the batch they
\* stand; the others are counted in error_count and add nothing; the two counts
\* add up to the number of files
C8_BatchSurvivesFailures ==
    [][Uploading =>
         LET items == last'[User].arg
             out == last'[User].out
         IN  /\ out.success_count + out.error_count = Len(items)
             /\ out.success_count = Cardinality({n \in DOMAIN items : Succeeds(items[n])})
             /\ coll'.docs = coll.docs (+) ChunksOfSucceeding(items)]_vars

\* a batch whose first file failed at the index write and whose second file was
\* indexed
C8_Witness ==
    /\ last[User].op = "upload"
    /\ last[User].arg = <<[file |-> FileB, fault |-> "write"],
                          [file |-> FileA, fault |-> "none"]>>
    /\ last[User].out = [success_count |-> 1, error_count |-> 1]
    /\ BagCardinality(ChunksOf(coll, FileA.name)) >= Len(Processed[FileA].documents)

----------------------------------------------------------------------------
(* Properties of two sessions (SpecConc) *)

\* a session is between the start and the end of add_documents
InAdd(s) == pc[s] \in {"add_create", "add_write"}
\* a session is between the start and the end of clear_all_documents
InClear(s) == pc[s] \in {"clear_delete", "clear_reset"}

\* C6: never is one session inside add_documents while the other is inside
\* clear_all_documents
C6_ClearExcludesAdd ==
    \A s \in Sessions : \A t \in Sessions \ {s} : ~(InAdd(s) /\ InClear(t))

\* C19: delete_document(source_name) returns True exactly when a chunk of that
\* source was indexed just before the call, and a call that returns False
\* leaves the index as it was
C19_DeleteReturn ==
    [][(last'[User].op = "delete_document" /\ pc[User] = "idle") =>
          /\ last'[User].ret = "True" <=> ChunksOf(coll, last'[User].arg) # EmptyBag
          /\ last'[User].ret = "False" => coll' = coll]_vars

\* delete_document returned False for a source without chunks while chunks of
\* another source are indexed
C19_Witness ==
    /\ last[User].op = "delete_document"
    /\ last[User].ret = "False"
    /\ vector_store[User] # None
    /\ coll.docs # EmptyBag

\* C18: get_document_count of every manager is the number of indexed chunks, or
\* 0 when the collection cannot be looked up
C18_CountIsIndexSize ==
    \A s \in Sessions :
        pc[s] = "idle" =>
            get_document_count(vector_store[s], coll)
                = IF coll.exists THEN BagCardinality(coll.docs) ELSE 0

\* the step is an add_documents that returns True for a batch whose source
\* already has chunks in the index
AddAgain ==
    /\ pc[User] = "idle"
    /\ last'[User].op = "add_documents"
    /\ last'[User].ret = "True"
    /\ ChunksOf(coll, SourceOf(last'[User].arg)) # EmptyBag

\* the same batch has been added twice in a row, both times with True, and the
\* step is delete_document of its source
DeleteAfterTwoAdds ==
    /\ last[User].op = "add_documents" /\ last[User].ret = "True"
    /\ last[User].prev.op = "add_documents" /\ last[User].prev.ret = "True"
    /\ last[User].prev.arg = last[User].arg
    /\ DeleteDocument(User, SourceOf(last[User].arg))

\* how often a name stands in a list
Occurrences(list, name) == Cardinality({i \in DOMAIN list : list[i] = name})

\* C21: add_documents does not de-duplicate by source. Adding the N chunks of a
\* file name that is already indexed raises get_document_count by N and the
\* chunks of that name by N, while get_all_documents lists the name once; and
\* one delete_document(name) after two adds of the batch returns True, leaves no
\* chunk of the name and lowers get_document_count by at least 2N
C21_NoDedupBySource ==
    [][/\ AddAgain =>
            LET documents == last'[User].arg
                name == SourceOf(documents)
            IN  /\ get_document_count(vector_store'[User], coll')
                     = get_document_count(vector_store[User], coll) + Len(documents)
                /\ BagCardinality(ChunksOf(coll', name))
                     = BagCardinality(ChunksOf(coll, name)) + Len(documents)
                /\ get_all_documents(vector_store'[User], coll').ret = "ok"
                /\ Occurrences(get_all_documents(vector_store'[User], coll').value, name) = 1
       /\ DeleteAfterTwoAdds =>
            LET name == SourceOf(last[User].arg)
            IN  /\ last'[User].ret = "True"
                /\ ChunksOf(coll', name) = EmptyBag
                /\ get_document_count(vector_store'[User], coll')
                     <= get_document_count(vector_store[User], coll)
                          - 2 * Len(last[User].arg)]_vars

\* a.txt has been added twice in a row: its chunks are indexed twice and its
\* name is listed once
C21_Witness ==
    /\ last[User].op = "add_documents" /\ last[User].ret = "True"
    /\ last[User].prev.op = "add_documents" /\ last[User].prev.ret = "True"
    /\ last[User].arg = Processed[FileA].documents
    /\ last[User].prev.arg = last[User].arg
    /\ BagCardinality(ChunksOf(coll, FileA.name)) = 2 * Len(last[User].arg)
    /\ get_document_count(vector_store[User], coll) = 2 * Len(last[User].arg)
    /\ get_all_documents(vector_store[User], coll).value = <<FileA.name>>

\* both adds of a.txt have been removed by one delete_document
C21_BothRemoved ==
    /\ last[User].op = "delete_document" /\ last[User].ret = "True"
    /\ last[User].arg = FileA.name
    /\ last[User].prev.op = "add_documents"
    /\ coll.exists /\ coll.docs = EmptyBag

====
